---- MODULE Spec2Model ----
(***************************************************************************)
(* Model of scripts/download_manager.py: the checkpoint download manager.  *)
(* main() owns the set downloaded_windows and runs, forever, one call of   *)
(* check_bucket_for_new_checkpoints() followed by a sleep.  Every await of *)
(* the code (listing, readiness probe, cache clear, fetch, cleanup, sleep) *)
(* is a position of pc; one action is the code that runs from one await to *)
(* the next.  The collaborators (CheckpointManager, clear_client_cache)    *)
(* are the environment: each call returns any value of its type or raises. *)
(***************************************************************************)
EXTENDS Integers, Sequences, FiniteSets

\* ------------------------------------------------------------- bounds
\* Number of top-level calls (polling cycles, and direct download_checkpoint
\* calls where the specification has them) a behaviour of the model starts.
MaxCalls == 2

\* Window ids the remote bucket may ever hold.
Windows == {200, 600, 900, 1000}

\* Values of GRAIL_CKPT_KEEP the process may be started with (5 is the default).
KeepLimits == {1, 5}

\* ---------------------------------------------------------- constants
\* grail.shared.constants.WINDOW_LENGTH, imported at line 131.
WINDOW_LENGTH == 100

\* DL_MANAGER_CHECK_INTERVAL, default 30.0 seconds.
bucket_check_interval == 30

\* asyncio.sleep(2.0) of the loop's own exception handler.
ErrorDelay == 2

\* logging levels of the standard library.
DEBUG == 10
INFO == 20
WARNING == 30

NoWindow == 0

VARIABLES
  pc,                 \* the await the task is suspended at, or "top" / "exited"
  keep_limit,         \* int(os.getenv("GRAIL_CKPT_KEEP", "5"))
  downloaded_windows, \* the set of line 85
  remote_windows,     \* result of the listing of the current cycle
  listing_result,     \* "none", or how the listing of this cycle ended
  downloaded_before,  \* downloaded_windows when the current call started
  todo,               \* rest of sorted(recent_windows) the for loop has to visit
  window,             \* argument of the download_checkpoint call in progress
  caller,             \* "cycle": called from line 142; "direct": called by a harness
  retval,             \* what the last download_checkpoint call returned
  local_store,        \* windows with a local copy (CheckpointManager's cache)
  sleep_delay,        \* argument of the asyncio.sleep in progress
  calls,              \* top-level calls started so far
  probed,             \* windows whose readiness probe was issued in this cycle
  fetched,            \* windows whose fetch was issued in this cycle
  ready_seen,         \* windows whose probe returned ready in this cycle
  notready_seen,      \* windows whose probe returned not ready in this cycle
  probe_raised,       \* windows whose probe raised in this cycle
  fetch_raised,       \* windows whose fetch raised in this cycle
  cache_calls,        \* clear_client_cache calls issued in this cycle
  cleaned,            \* cleanup_local was called in this cycle
  cycle_error,        \* an exception reached line 150 in this cycle
  log_level,          \* highest level logged in this cycle (0: nothing)
  ever_listed,        \* windows seen in some listing
  ever_ready,         \* windows whose probe returned ready at some time
  ok_fetches,         \* per window, the fetches that returned a path
  cleanup_calls,      \* arguments of the cleanup_local calls, in order
  latests,            \* max of every non-empty listing, in order
  probe_order,        \* windows probed in this cycle, in the order of the probes
  completed,          \* windows whose download_checkpoint call returned in this cycle
  added,              \* windows whose fetch returned a path in this cycle
  cache_failed,       \* clear_client_cache raised in the download_checkpoint call in progress or last ended
  cleanup_raised,     \* the last cleanup_local call that ended raised
  abandoned,          \* windows some listing held below its cutoff, not downloaded
  abandoned_before,   \* abandoned when the current call started
  cred_env,           \* what the credential resolver finds (environment, chain, files)
  creds               \* the credentials main() resolved at line 78

vars == <<pc, keep_limit, downloaded_windows, remote_windows, listing_result,
          downloaded_before, todo, window,
          caller, retval, local_store, sleep_delay, calls, probed,
          fetched, ready_seen, notready_seen, probe_raised, fetch_raised, cache_calls,
          cleaned, cycle_error, log_level, ever_listed, ever_ready, ok_fetches,
          cleanup_calls, latests, probe_order, completed, added, cache_failed,
          cleanup_raised, abandoned, abandoned_before, cred_env, creds>>

\* ------------------------------------------------------------ helpers
Max(S) == CHOOSE x \in S : \A y \in S : y <= x
Min(S) == CHOOSE x \in S : \A y \in S : x <= y
MaxOf(a, b) == IF a >= b THEN a ELSE b

\* The descending sequence of a set of integers.
RECURSIVE SortedDesc(_)
SortedDesc(S) == IF S = {} THEN <<>> ELSE <<Max(S)>> \o SortedDesc(S \ {Max(S)})

\* sorted(...) of line 140: the ascending sequence of a set of integers.
RECURSIVE Sorted(_)
Sorted(S) == IF S = {} THEN <<>> ELSE <<Min(S)>> \o Sorted(S \ {Min(S)})

\* A listing that is never taken for empty.
NeverEmpty(rw) == FALSE

\* `if not remote_windows` of line 122.
EmptyListing(rw) == rw = {}

\* The oldest window of a listing.
OldestWindow(rw) == Min(rw)

\* line 126
LatestWindow(rw) == Max(rw)

\* line 132
MaxWindowsToDownload(k) == k + 2

\* line 133
CutoffWindow(latest, k) == latest - (MaxWindowsToDownload(k) * WINDOW_LENGTH)

\* The listing without the recency filter.
AllWindows(rw, cutoff) == rw

\* line 136
RecentWindows(rw, cutoff) == {w \in rw : w >= cutoff}

\* `if window not in downloaded_windows` of line 141.
NeedsDownload(w, dl) == w \notin dl

\* A download_checkpoint without its short-circuit.
NeverDownloaded(w, dl) == FALSE

\* `if window in downloaded_windows` of line 91.
AlreadyDownloaded(w, dl) == w \in dl

\* A download_checkpoint that ignores the answer of the probe.
ProceedsAlways(ready) == TRUE

\* `if not await mgr._is_checkpoint_ready(window): return False` of line 95.
ProceedsToDownload(ready) == ready

\* The window recorded whatever get_checkpoint returned.
AfterFetchAlways(dl, w, path) == dl \cup {w}

\* The set overwritten instead of extended.
AfterFetchReplace(dl, w, path) == IF path THEN {w} ELSE dl

\* lines 107-108: the set after get_checkpoint returned (path: a path came back).
AfterFetch(dl, w, path) == IF path THEN dl \cup {w} ELSE dl

\* A cycle that lets its exceptions through to the handler of line 161.
CycleLetsThrough == FALSE

\* lines 150-151: `except Exception` around the whole body of the cycle.
CycleCatches == TRUE

\* lines 156-163: the sleep that follows the cycle; escaped: an Exception left
\* check_bucket_for_new_checkpoints.
LoopDelay(escaped) == IF escaped THEN ErrorDelay ELSE bucket_check_interval

\* CheckpointManager.cleanup_local: local copies kept for the keep_limit most
\* recent windows relative to the latest remote window.
KeptLocally(store, latest, k) == {w \in store : w > latest - k * WINDOW_LENGTH}

Log(level) == log_level' = MaxOf(log_level, level)

\* The histories of the whole run (ever_listed, ever_ready, ok_fetches,
\* abandoned, cleanup_calls, latests) cover the first MaxCalls calls: later
\* calls change the state of the program only.
Noted(old, new) == IF calls <= MaxCalls THEN new ELSE old

Record(history, x) == Noted(history, Append(history, x))

\* ------------------------------------------------- credential resolver
\* What _resolve_checkpoint_credentials reads: the value of USE_TRAINER_BUCKET,
\* how the chain lookup of lines 33-50 ends, how load_r2_credentials() and
\* get_read_dict() of lines 60-63 end, and the four GRAIL_CKPT_* variables.
Unset == "<unset>"
FlagValues == {Unset, "1", "0", "true", "True", "TRUE", "yes", "on", "ON",
               "off", "false", ""}
ChainOutcomes == {"bucket", "none", "raise"}
LocalOutcomes == {"ok", "raise"}
EnvValues == {Unset, "x"}
CredEnvs == [flag : FlagValues, chain : ChainOutcomes, local : LocalOutcomes,
             bucket : EnvValues, account : EnvValues, access : EnvValues,
             secret : EnvValues]

\* The environment of a default start: nothing set, the chain has the bucket.
DefaultEnv == [flag |-> Unset, chain |-> "bucket", local |-> "ok",
               bucket |-> Unset, account |-> Unset, access |-> Unset,
               secret |-> Unset]

\* os.getenv(name, default)
Getenv(v, default) == IF v = Unset THEN default ELSE v

\* str.lower() on the values the flag takes.
Lower(str) ==
  CASE str = "True" -> "true"
    [] str = "TRUE" -> "true"
    [] str = "ON" -> "on"
    [] OTHER -> str

\* A resolver that looks at the chain whatever the flag says.
UseTrainerAlways(flag) == TRUE

\* line 30
UseTrainer(flag) == Lower(Getenv(flag, "1")) \in {"1", "true", "yes", "on"}

\* The objects the first two steps return: the bucket of the chain (line 53),
\* the read dict of the local credentials (line 63).
TrainerBucket == [name |-> "trainer-bucket", account_id |-> "trainer",
                  access_key_id |-> "trainer", secret_access_key |-> "trainer"]
LocalReadDict == [name |-> "local-bucket", account_id |-> "local",
                  access_key_id |-> "local", secret_access_key |-> "local"]

\* lines 66-71
EnvBag(e) ==
  [name |-> Getenv(e.bucket, ""), account_id |-> Getenv(e.account, ""),
   access_key_id |-> Getenv(e.access, ""),
   secret_access_key |-> Getenv(e.secret, "")]

\* What the caller gets when an exception leaves the resolver.
Raised == [raised |-> TRUE, source |-> "none", bag |-> EnvBag(DefaultEnv)]

\* lines 56-57: `except Exception` around the chain lookup.
ChainErrorCaught == TRUE

\* lines 64-65: `except Exception` around the local credentials.
LocalErrorCaught == TRUE

\* lines 59-71: the local credentials, or the bag of the environment when
\* loading them raised.
LocalStep(e) ==
  IF e.local = "ok"
  THEN [raised |-> FALSE, source |-> "local", bag |-> LocalReadDict]
  ELSE IF ~LocalErrorCaught
  THEN Raised
  ELSE [raised |-> FALSE, source |-> "env", bag |-> EnvBag(e)]

\* lines 28-71: with the flag on the chain lookup returns the bucket (line 53),
\* or control falls through (no bucket: line 55; an exception: lines 56-57).
ResolveCheckpointCredentials(e) ==
  IF UseTrainer(e.flag) /\ e.chain = "bucket"
  THEN [raised |-> FALSE, source |-> "chain", bag |-> TrainerBucket]
  ELSE IF UseTrainer(e.flag) /\ e.chain = "raise" /\ ~ChainErrorCaught
  THEN Raised
  ELSE LocalStep(e)

Unresolved == [raised |-> FALSE, source |-> "none", bag |-> EnvBag(DefaultEnv)]

\* ------------------------------------------------------- control flow
\* A loop that an exception of a cycle ends.
EndCycleCrash(raised) ==
  /\ pc' = IF raised THEN "exited" ELSE "sleep"
  /\ cycle_error' = (cycle_error \/ raised)
  /\ sleep_delay' = IF raised THEN sleep_delay ELSE LoopDelay(FALSE)

\* check_bucket_for_new_checkpoints returns (or raises, caught at line 150 when
\* raised): main goes on to the sleep of line 158, or of line 163 if an
\* Exception escaped.
EndCycle(raised) ==
  /\ pc' = "sleep"
  /\ cycle_error' = (cycle_error \/ raised)
  /\ sleep_delay' = LoopDelay(raised /\ ~CycleCatches)

\* The for loop of lines 140-142 from `rest` on, up to the next await: windows
\* that need no download are passed over; the first other one is probed (line
\* 95); when none is left cleanup_local(latest_window) is called (line 146).
RECURSIVE Pending(_, _)
Pending(rest, dl) ==
  IF rest = <<>> THEN <<>>
  ELSE IF NeedsDownload(Head(rest), dl) /\ ~AlreadyDownloaded(Head(rest), dl)
       THEN rest
       ELSE Pending(Tail(rest), dl)

ForLoop(rest, dl, latest) ==
  LET p == Pending(rest, dl) IN
  IF p = <<>>
  THEN /\ pc' = "cleanup"
       /\ window' = NoWindow
       /\ todo' = <<>>
       /\ cleaned' = TRUE
       /\ cleanup_calls' = Record(cleanup_calls, latest)
       /\ UNCHANGED <<probed, probe_order, cache_failed, cycle_error, sleep_delay>>
  ELSE /\ pc' = "probe"
       /\ window' = Head(p)
       /\ todo' = Tail(p)
       /\ probed' = probed \cup {Head(p)}
       /\ probe_order' = Append(probe_order, Head(p))
       /\ cache_failed' = FALSE
       /\ UNCHANGED <<cleaned, cleanup_calls, cycle_error, sleep_delay>>

\* download_checkpoint returns val to its caller: the loop of line 140 goes on,
\* a direct caller gets the value.
Return(val, dl) ==
  /\ retval' = val
  /\ completed' = completed \cup {window}
  /\ IF caller = "cycle"
     THEN ForLoop(todo, dl, LatestWindow(remote_windows))
     ELSE /\ pc' = "top"
          /\ UNCHANGED <<window, todo, probed, probe_order, cache_failed,
                         cleaned, cleanup_calls, cycle_error, sleep_delay>>

\* ------------------------------------------------------------ actions
\* The state of main() at line 85, before call number n + 1.
Fresh(n) ==
  /\ keep_limit \in KeepLimits
  /\ downloaded_windows = {}
  /\ remote_windows = {}
  /\ listing_result = "none"
  /\ downloaded_before = {}
  /\ todo = <<>>
  /\ window = NoWindow
  /\ caller = "cycle"
  /\ retval = "none"
  /\ local_store = {}
  /\ sleep_delay = 0
  /\ calls = n
  /\ probed = {}
  /\ fetched = {}
  /\ ready_seen = {}
  /\ notready_seen = {}
  /\ probe_raised = {}
  /\ fetch_raised = {}
  /\ cache_calls = 0
  /\ cleaned = FALSE
  /\ cycle_error = FALSE
  /\ log_level = 0
  /\ ever_listed = {}
  /\ ever_ready = {}
  /\ ok_fetches = [w \in Windows |-> 0]
  /\ cleanup_calls = <<>>
  /\ latests = <<>>
  /\ probe_order = <<>>
  /\ completed = {}
  /\ added = {}
  /\ cache_failed = FALSE
  /\ cleanup_raised = FALSE
  /\ abandoned = {}
  /\ abandoned_before = {}

Init ==
  /\ pc = "top"
  /\ cred_env = DefaultEnv
  /\ creds = ResolveCheckpointCredentials(DefaultEnv)
  /\ Fresh(0)

\* line 157 up to the await of line 121, as call number n.
CycleStart(n) ==
  /\ pc = "top"
  /\ calls' = n
  /\ pc' = "listing"
  /\ caller' = "cycle"
  /\ remote_windows' = {}
  /\ listing_result' = "none"
  /\ downloaded_before' = downloaded_windows
  /\ todo' = <<>>
  /\ window' = NoWindow
  /\ retval' = "none"
  /\ sleep_delay' = 0
  /\ probed' = {}
  /\ fetched' = {}
  /\ ready_seen' = {}
  /\ notready_seen' = {}
  /\ probe_raised' = {}
  /\ fetch_raised' = {}
  /\ cache_calls' = 0
  /\ cleaned' = FALSE
  /\ cycle_error' = FALSE
  /\ log_level' = 0
  /\ probe_order' = <<>>
  /\ completed' = {}
  /\ added' = {}
  /\ cache_failed' = FALSE
  /\ abandoned_before' = abandoned
  /\ UNCHANGED <<cleanup_raised, keep_limit, downloaded_windows, local_store, ever_listed,
                 ever_ready, ok_fetches, cleanup_calls, latests, abandoned,
                 cred_env, creds>>

\* A cycle among the first MaxCalls calls, whose history is recorded in full.
BeginCycle == calls < MaxCalls /\ CycleStart(calls + 1)

\* A cycle after them: `while True` has no last round.
BeginCycleOn == calls > MaxCalls /\ CycleStart(calls)

\* mgr.list_remote_windows() returns rw: lines 121-142 up to the next await.
ListReturns(rw) ==
  /\ pc = "listing"
  /\ remote_windows' = rw
  /\ listing_result' = "returned"
  /\ UNCHANGED <<downloaded_before, abandoned_before>>
  /\ ever_listed' = Noted(ever_listed, ever_listed \cup rw)
  /\ abandoned' = Noted(abandoned, abandoned \cup
       {w \in rw : /\ w < Max(rw) - (keep_limit + 2) * WINDOW_LENGTH
                   /\ w \notin downloaded_windows})
  /\ IF EmptyListing(rw)
     THEN /\ Log(DEBUG)
          /\ EndCycle(FALSE)
          /\ UNCHANGED <<todo, window, probed, probe_order, cache_failed,
                         cleaned, cleanup_calls, latests>>
     ELSE IF rw = {}
     THEN \* max() of an empty collection raises ValueError at line 126
          /\ Log(WARNING)
          /\ EndCycle(TRUE)
          /\ UNCHANGED <<todo, window, probed, probe_order, cache_failed,
                         cleaned, cleanup_calls, latests>>
     ELSE /\ Log(DEBUG)
          /\ latests' = Record(latests, Max(rw))
          /\ ForLoop(Sorted(RecentWindows(rw, CutoffWindow(LatestWindow(rw), keep_limit))),
                     downloaded_windows, LatestWindow(rw))
  /\ UNCHANGED <<keep_limit, downloaded_windows, caller, retval, local_store,
                 calls, fetched, ready_seen, notready_seen, probe_raised,
                 fetch_raised, cache_calls, ever_ready, ok_fetches, completed,
                 added,  cleanup_raised,
                 cred_env, creds>>

\* mgr.list_remote_windows() raises: caught at line 150.
ListRaises ==
  /\ pc = "listing"
  /\ listing_result' = "raised"
  /\ UNCHANGED downloaded_before
  /\ Log(WARNING)
  /\ EndCycle(TRUE)
  /\ UNCHANGED <<keep_limit, downloaded_windows, remote_windows, todo, window,
                 caller, retval, local_store, calls, probed, fetched,
                 ready_seen, notready_seen, probe_raised, fetch_raised,
                 cache_calls, cleaned, ever_listed, ever_ready, ok_fetches,
                 cleanup_calls, latests, probe_order, completed, added,
                 cache_failed, cleanup_raised, abandoned,
                 abandoned_before, cred_env, creds>>

\* mgr._is_checkpoint_ready(window) returns: lines 95-102, or 95-96 and the loop.
ProbeReturns(ready) ==
  /\ pc = "probe"
  /\ IF ProceedsToDownload(ready)
     THEN /\ Log(INFO)
          /\ pc' = "clear_cache"
          /\ cache_calls' = cache_calls + 1
          /\ UNCHANGED <<retval, window, todo, probed, probe_order, completed,
                         cache_failed, cleaned, cleanup_calls, cycle_error, sleep_delay>>
     ELSE /\ Return("false", downloaded_windows)
          /\ UNCHANGED <<log_level, cache_calls>>
  /\ ready_seen' = IF ready THEN ready_seen \cup {window} ELSE ready_seen
  /\ notready_seen' = IF ready THEN notready_seen ELSE notready_seen \cup {window}
  /\ ever_ready' = Noted(ever_ready, IF ready THEN ever_ready \cup {window} ELSE ever_ready)
  /\ UNCHANGED <<listing_result, downloaded_before, keep_limit, downloaded_windows, remote_windows, caller,
                 local_store, calls, fetched, probe_raised, fetch_raised,
                 ever_listed, ok_fetches, latests, added, 
                 cleanup_raised, abandoned, abandoned_before, cred_env, creds>>

\* mgr._is_checkpoint_ready(window) raises: line 95 is outside the try of line
\* 99, so the exception leaves download_checkpoint and the for loop and is
\* caught at line 150 (a direct caller gets the exception).
ProbeRaises ==
  /\ pc = "probe"
  /\ probe_raised' = probe_raised \cup {window}
  /\ retval' = "raised"
  /\ IF caller = "cycle"
     THEN /\ Log(WARNING)
          /\ EndCycle(TRUE)
     ELSE /\ pc' = "top"
          /\ UNCHANGED <<log_level, cycle_error, sleep_delay>>
  /\ UNCHANGED <<listing_result, downloaded_before, keep_limit, downloaded_windows, remote_windows, todo, window,
                 caller, local_store, calls, probed, fetched, ready_seen,
                 notready_seen, fetch_raised, cache_calls, cleaned, ever_listed,
                 ever_ready, ok_fetches, cleanup_calls, latests, probe_order,
                 completed, added, cache_failed, cleanup_raised, abandoned, abandoned_before, cred_env, creds>>

\* A download_checkpoint whose cache clear is inside no try of its own.
CacheErrorEscapes == FALSE

\* lines 103-104: `except Exception: pass` around clear_client_cache().
CacheErrorPassed == TRUE

\* clear_client_cache() returns or raises (lines 101-104, the exception is
\* passed over): get_checkpoint(window) is called at line 106.  An exception
\* that is not passed over is taken by line 114.
ClearCacheDone(raised) ==
  /\ pc = "clear_cache"
  /\ IF raised /\ ~CacheErrorPassed
     THEN /\ Log(WARNING)
          /\ Return("false", downloaded_windows)
          /\ UNCHANGED fetched
     ELSE /\ pc' = "fetch"
          /\ fetched' = fetched \cup {window}
          /\ cache_failed' = raised
          /\ UNCHANGED <<todo, window, retval, sleep_delay, probed, cleaned,
                         cycle_error, log_level, cleanup_calls, probe_order,
                         completed>>
  /\ UNCHANGED <<listing_result, downloaded_before, keep_limit,
                 downloaded_windows, remote_windows, caller, local_store, calls,
                 ready_seen, notready_seen, probe_raised, fetch_raised,
                 cache_calls, ever_listed, ever_ready, ok_fetches, latests,
                 added, cleanup_raised, abandoned,
                 abandoned_before, cred_env, creds>>

\* mgr.get_checkpoint(window) returns a path (path) or None: lines 106-113 and
\* the loop.  A returned path is a local copy written by the manager.
FetchReturns(path) ==
  /\ pc = "fetch"
  /\ downloaded_windows' = AfterFetch(downloaded_windows, window, path)
  /\ ok_fetches' = Noted(ok_fetches,
                         IF path
                         THEN [ok_fetches EXCEPT ![window] = IF @ < 2 THEN @ + 1 ELSE @]
                         ELSE ok_fetches)
  /\ local_store' = IF path THEN local_store \cup {window} ELSE local_store
  /\ added' = IF path THEN added \cup {window} ELSE added
  /\ Log(IF path THEN INFO ELSE WARNING)
  /\ Return(IF path THEN "true" ELSE "false", downloaded_windows')
  /\ UNCHANGED <<listing_result, downloaded_before, keep_limit, remote_windows, caller, calls, fetched,
                 ready_seen, notready_seen, probe_raised, fetch_raised,
                 cache_calls, ever_listed, ever_ready, latests, 
                 cleanup_raised, abandoned, abandoned_before, cred_env, creds>>

\* mgr.get_checkpoint(window) raises: lines 114-116 and the loop.
FetchRaises ==
  /\ pc = "fetch"
  /\ fetch_raised' = fetch_raised \cup {window}
  /\ Log(WARNING)
  /\ Return("false", downloaded_windows)
  /\ UNCHANGED <<listing_result, downloaded_before, keep_limit, downloaded_windows, remote_windows, caller,
                 local_store, calls, fetched, ready_seen, notready_seen,
                 probe_raised, cache_calls, ever_listed, ever_ready, ok_fetches,
                 latests, added,  cleanup_raised, abandoned, abandoned_before, cred_env, creds>>

\* mgr.cleanup_local(latest_window) returns: the cycle ends.
CleanupReturns ==
  /\ pc = "cleanup"
  /\ cache_failed' = FALSE
  /\ local_store' = KeptLocally(local_store, LatestWindow(remote_windows), keep_limit)
  /\ cleanup_raised' = FALSE
  /\ EndCycle(FALSE)
  /\ UNCHANGED <<listing_result, downloaded_before, keep_limit, downloaded_windows, remote_windows, todo, window,
                 caller, retval, calls, probed, fetched, ready_seen,
                 notready_seen, probe_raised, fetch_raised, cache_calls, cleaned,
                 log_level, ever_listed, ever_ready, ok_fetches, cleanup_calls,
                 latests, probe_order, completed, added, 
                 abandoned, abandoned_before, cred_env, creds>>

\* lines 147-148: `except Exception` around cleanup_local().
CleanupErrorSwallowed == TRUE

\* mgr.cleanup_local(latest_window) raises: lines 147-148, the cycle ends.  An
\* exception that is not swallowed there is taken by line 150.
CleanupRaises ==
  /\ pc = "cleanup"
  /\ cache_failed' = FALSE
  /\ cleanup_raised' = TRUE
  /\ IF CleanupErrorSwallowed
     THEN /\ Log(DEBUG)
          /\ EndCycle(FALSE)
     ELSE /\ Log(WARNING)
          /\ EndCycle(TRUE)
  /\ UNCHANGED <<listing_result, downloaded_before, keep_limit,
                 downloaded_windows, remote_windows, todo, window, caller,
                 retval, local_store, calls, probed, fetched, ready_seen,
                 notready_seen, probe_raised, fetch_raised, cache_calls, cleaned,
                 ever_listed, ever_ready, ok_fetches, cleanup_calls, latests,
                 probe_order, completed, added,  abandoned, abandoned_before, cred_env, creds>>

\* asyncio.sleep returns: `while True` goes round.
SleepReturns ==
  /\ pc = "sleep"
  /\ pc' = "top"
  /\ UNCHANGED <<listing_result, downloaded_before, keep_limit, downloaded_windows, remote_windows, todo, window,
                 caller, retval, local_store, sleep_delay, calls, probed,
                 fetched, ready_seen, notready_seen, probe_raised, fetch_raised,
                 cache_calls, cleaned, cycle_error, log_level, ever_listed,
                 ever_ready, ok_fetches, cleanup_calls, latests, probe_order,
                 completed, added, cache_failed, cleanup_raised, abandoned, abandoned_before, cred_env, creds>>

AwaitPoints == {"listing", "probe", "clear_cache", "fetch", "cleanup", "sleep"}

\* The task is cancelled: CancelledError is raised at the await in progress; it
\* is no Exception, so no handler but line 159 takes it, and the loop breaks.
Cancel ==
  /\ pc \in AwaitPoints
  /\ caller = "cycle"
  /\ pc' = "exited"
  /\ UNCHANGED <<listing_result, downloaded_before, keep_limit, downloaded_windows, remote_windows, todo, window,
                 caller, retval, local_store, sleep_delay, calls, probed,
                 fetched, ready_seen, notready_seen, probe_raised, fetch_raised,
                 cache_calls, cleaned, cycle_error, log_level, ever_listed,
                 ever_ready, ok_fetches, cleanup_calls, latests, probe_order,
                 completed, added, cache_failed, cleanup_raised, abandoned, abandoned_before, cred_env, creds>>

\* download_checkpoint(w) called on its own between two cycles: lines 91-95.
\* The histories of the current call start afresh, as they do for a cycle.
DirectCall(w) ==
  /\ pc = "top"
  /\ calls < MaxCalls
  /\ calls' = calls + 1
  /\ caller' = "direct"
  /\ downloaded_before' = downloaded_windows
  /\ UNCHANGED listing_result
  /\ window' = w
  /\ IF AlreadyDownloaded(w, downloaded_windows)
     THEN /\ retval' = "true"
          /\ probed' = {}
          /\ probe_order' = <<>>
          /\ UNCHANGED pc
     ELSE /\ retval' = "none"
          /\ pc' = "probe"
          /\ probed' = {w}
          /\ probe_order' = <<w>>
  /\ completed' = {}
  /\ added' = {}
  /\ cache_failed' = FALSE
  /\ abandoned_before' = abandoned
  /\ UNCHANGED cleanup_raised
  /\ fetched' = {}
  /\ ready_seen' = {}
  /\ notready_seen' = {}
  /\ probe_raised' = {}
  /\ fetch_raised' = {}
  /\ cache_calls' = 0
  /\ cleaned' = FALSE
  /\ cycle_error' = FALSE
  /\ log_level' = 0
  /\ sleep_delay' = 0
  /\ UNCHANGED <<keep_limit, downloaded_windows, remote_windows, todo,
                 local_store, ever_listed, ever_ready, ok_fetches,
                 cleanup_calls, latests, abandoned, cred_env, creds>>

Next ==
  \/ BeginCycle
  \/ \E rw \in SUBSET Windows : ListReturns(rw)
  \/ ListRaises
  \/ \E ready \in BOOLEAN : ProbeReturns(ready)
  \/ ProbeRaises
  \/ \E raised \in BOOLEAN : ClearCacheDone(raised)
  \/ \E path \in BOOLEAN : FetchReturns(path)
  \/ FetchRaises
  \/ CleanupReturns
  \/ CleanupRaises
  \/ SleepReturns
  \/ Cancel

Spec == Init /\ [][Next]_vars

\* The process while no cancellation arrives, with no bound on its cycles and
\* without the histories of the whole run.
NextLive ==
  \/ BeginCycleOn
  \/ \E rw \in SUBSET Windows : ListReturns(rw)
  \/ ListRaises
  \/ \E ready \in BOOLEAN : ProbeReturns(ready)
  \/ ProbeRaises
  \/ \E raised \in BOOLEAN : ClearCacheDone(raised)
  \/ \E path \in BOOLEAN : FetchReturns(path)
  \/ FetchRaises
  \/ CleanupReturns
  \/ CleanupRaises
  \/ SleepReturns

\* asyncio.sleep returns after its delay, and the loop then calls the cycle.
LoopFairness ==
  /\ WF_vars(SleepReturns)
  /\ WF_vars(BeginCycleOn)

\* The state after construction, the histories of the whole run left out.
InitLive ==
  /\ pc = "top"
  /\ cred_env = DefaultEnv
  /\ creds = ResolveCheckpointCredentials(DefaultEnv)
  /\ Fresh(MaxCalls + 1)

SpecLive == InitLive /\ [][NextLive]_vars /\ LoopFairness

\* main() at line 78, in any environment of the resolver.
InitCreds ==
  /\ pc = "resolving"
  /\ cred_env \in CredEnvs
  /\ creds = Unresolved
  /\ Fresh(0)

\* line 78: creds = await _resolve_checkpoint_credentials()
ResolveCredentials ==
  /\ pc = "resolving"
  /\ creds' = ResolveCheckpointCredentials(cred_env)
  /\ pc' = IF creds'.raised THEN "exited" ELSE "top"
  /\ UNCHANGED <<keep_limit, downloaded_windows, remote_windows, listing_result,
                 downloaded_before, todo, window, caller, retval, local_store,
                 sleep_delay, calls, probed, fetched, ready_seen, notready_seen,
                 probe_raised, fetch_raised, cache_calls, cleaned, cycle_error,
                 log_level, ever_listed, ever_ready, ok_fetches, cleanup_calls,
                 latests, probe_order, completed, added, cache_failed,
                 cleanup_raised, abandoned, abandoned_before, cred_env>>

\* The start of the process up to the polling loop.
NextCreds == ResolveCredentials

SpecCreds == InitCreds /\ [][NextCreds]_vars

\* The newest window the bucket may hold: listed, it is never below the cutoff.
GoodWindow == Max(Windows)

\* The process while no cancellation arrives and the bucket is kind to
\* GoodWindow: every listing returns and holds it, its probe returns ready and
\* its fetch returns a path.  The other windows fare as they may.
NextGood ==
  \/ BeginCycleOn
  \/ \E rw \in SUBSET Windows : GoodWindow \in rw /\ ListReturns(rw)
  \/ \E ready \in BOOLEAN : (window = GoodWindow => ready) /\ ProbeReturns(ready)
  \/ window # GoodWindow /\ ProbeRaises
  \/ \E raised \in BOOLEAN : ClearCacheDone(raised)
  \/ \E path \in BOOLEAN : (window = GoodWindow => path) /\ FetchReturns(path)
  \/ window # GoodWindow /\ FetchRaises
  \/ CleanupReturns
  \/ CleanupRaises
  \/ SleepReturns

\* Every call in progress ends and the loop goes round.
SpecGood == InitLive /\ [][NextGood]_vars /\ WF_vars(NextGood)

\* The same process with download_checkpoint also called directly.
NextDirect == Next \/ \E w \in Windows : DirectCall(w)

SpecDirect == Init /\ [][NextDirect]_vars

\* -------------------------------------------------------------- claims
\* The windows a cycle may touch, computed from its listing as the claims state
\* it: at or above latest - (keep_limit + 2) * stride.
Eligible == {w \in remote_windows :
               w >= Max(remote_windows) - (keep_limit + 2) * WINDOW_LENGTH}

\* C1: a window is in downloaded_windows if and only if some earlier
\* get_checkpoint call for it returned a path, and a step in which no
\* get_checkpoint call returns a path (among them: a fetch that returns None, a
\* fetch that raises) leaves downloaded_windows exactly as it was.
C1_DownloadedIffFetched ==
  /\ [](downloaded_windows = {w \in Windows : ok_fetches[w] > 0})
  /\ [][ok_fetches' = ok_fetches => downloaded_windows' = downloaded_windows]_vars

\* One cycle fetched two windows: one fetch returned a path, the other raised.
C1_Witness ==
  /\ pc = "cleanup"
  /\ \E w \in fetched : w \in downloaded_windows /\ ok_fetches[w] = 1
  /\ \E v \in fetched : v \in fetch_raised /\ v \notin downloaded_windows

\* C2: while a window is in downloaded_windows no readiness probe, cache clear
\* or fetch is in progress for it, whether download_checkpoint was called by a
\* cycle or directly; a direct call for such a window returns True; and no
\* window is fetched successfully more than once.
C2_NoRefetch ==
  /\ pc \in {"probe", "clear_cache", "fetch"} => window \notin downloaded_windows
  /\ probed \cap downloaded_before = {}
  /\ fetched \cap downloaded_before = {}
  /\ (caller = "direct" /\ pc = "top" /\ window \in downloaded_windows)
       => retval = "true"
  /\ \A w \in Windows : ok_fetches[w] <= 1

\* A direct call for a window fetched by an earlier cycle, whose local copy that
\* cycle's cleanup has pruned, returned True without a probe.
C2_Witness ==
  /\ caller = "direct"
  /\ pc = "top"
  /\ window \in downloaded_before
  /\ window \notin local_store
  /\ retval = "true"
  /\ probed = {}
  /\ fetched = {}

\* C3: every window probed or fetched in a cycle is at or above
\* latest - (keep_limit + 2) * stride, latest being the maximum of the listing
\* of that cycle; with keep_limit 5, stride 100 and the listing
\* {200, 600, 900, 1000} only 600, 900 and 1000 are touched.
C3_RecencyCutoff ==
  /\ \A w \in probed \cup fetched :
       /\ remote_windows # {}
       /\ w >= Max(remote_windows) - (keep_limit + 2) * WINDOW_LENGTH
  /\ (keep_limit = 5 /\ WINDOW_LENGTH = 100 /\ remote_windows = {200, 600, 900, 1000})
       => probed \cup fetched \subseteq {600, 900, 1000}

\* The cycle of the example has probed and fetched 600, 900 and 1000 and calls
\* cleanup; 200 was listed and left alone.
C3_Witness ==
  /\ pc = "cleanup"
  /\ keep_limit = 5
  /\ remote_windows = {200, 600, 900, 1000}
  /\ probed = {600, 900, 1000}
  /\ fetched = {600, 900, 1000}

\* C4: every window fetched in a cycle is in the listing of that cycle and its
\* probe returned ready in that cycle; a window whose probe returned not ready
\* is not fetched in that cycle and is not in downloaded_windows; every member
\* of downloaded_windows was listed at some time and passed a probe.
C4_ReadyGate ==
  /\ fetched \subseteq remote_windows \cap ready_seen
  /\ notready_seen \cap fetched = {}
  /\ notready_seen \cap downloaded_windows = {}
  /\ downloaded_windows \subseteq ever_listed \cap ever_ready

\* A cycle has ended in which one window was not ready and another one was
\* fetched and recorded.
C4_Witness ==
  /\ pc = "sleep"
  /\ notready_seen # {}
  /\ fetched \cap downloaded_windows # {}
  /\ \E w \in notready_seen : \E v \in fetched : w < v

\* C5: when a cycle in which the fetch of window A raised has ended, cleanup was
\* called in it and every eligible window B > A that is not in
\* downloaded_windows was probed in it.
C5_FetchErrorIsolated ==
  (pc = "sleep" /\ fetch_raised # {}) =>
    /\ cleaned
    /\ \A A \in fetch_raised : \A B \in Eligible :
         (B > A /\ B \notin downloaded_windows) => B \in probed

\* C6: when a cycle in which the probe of window A raised has ended, every
\* eligible window B > A that is not in downloaded_windows was probed in it.
C6_ProbeErrorIsolated ==
  pc = "sleep" =>
    \A A \in probe_raised : \A B \in Eligible :
      (B > A /\ B \notin downloaded_windows) => B \in probed

\* C7: when a cycle has ended, the arguments of the cleanup_local calls made so
\* far are, in order, the maxima of the non-empty listings returned so far.
C7_CleanupPerCycle ==
  pc = "sleep" => cleanup_calls = latests

\* C8: a cycle whose listing returned the empty set issues no probe, no cache
\* clear, no fetch and no cleanup call, leaves downloaded_windows as it was and
\* logs nothing above debug level.
C8_EmptyCatalog ==
  (listing_result = "returned" /\ remote_windows = {}) =>
    /\ probed = {}
    /\ fetched = {}
    /\ cache_calls = 0
    /\ ~cleaned
    /\ downloaded_windows = downloaded_before
    /\ log_level <= DEBUG
    /\ pc \in {"sleep", "top", "exited"}

\* A cycle that follows one with downloads got an empty listing and has ended.
C8_Witness ==
  /\ pc = "sleep"
  /\ listing_result = "returned"
  /\ remote_windows = {}
  /\ downloaded_windows # {}
  /\ cleanup_calls # <<>>

\* C9: no step removes a window from downloaded_windows.
C9_Monotone == [][downloaded_windows \subseteq downloaded_windows']_vars

\* A second window was recorded after a fetch that raised in the same cycle,
\* and the cleanup of that cycle has run and pruned a local copy.
C9_Witness ==
  /\ pc = "sleep"
  /\ Cardinality(downloaded_windows) >= 2
  /\ downloaded_windows # downloaded_before
  /\ fetch_raised # {}
  /\ cleaned
  /\ local_store # downloaded_windows

\* C10: when a cycle in which an exception was raised and reached the cycle
\* boundary has ended, the sleep that follows it is the 2 second one.
C10_ErrorDelay ==
  (pc = "sleep" /\ cycle_error) => sleep_delay = ErrorDelay

\* C11: without cancellation the loop never exits, and after every cycle,
\* whatever errors occurred in it, another cycle starts.
C11_LoopNeverExits ==
  /\ [](pc # "exited")
  /\ (pc = "sleep") ~> (pc = "listing")

\* A cycle has started after one in which cleanup_local raised and windows
\* had been added.
C11_Witness ==
  /\ pc = "listing"
  /\ cleanup_raised
  /\ downloaded_windows # {}

\* C12: after a cleanup call that raised, the next cycle with a catalog calls
\* cleanup again: a cycle whose listing returned windows does not come to its
\* sleep without a cleanup call while the last cleanup call is one that raised.
C12_CleanupAgain ==
  (pc = "sleep" /\ cleanup_raised /\ listing_result = "returned"
     /\ remote_windows # {})
    => cleaned

\* C13: the resolver never raises; it returns the bucket of the chain when the
\* flag is on and the lookup gives a bucket, otherwise the local credentials
\* when they load, otherwise the bag of the environment variables, "" for each
\* that is not set.
C13_FlagOn ==
  cred_env.flag \in {Unset, "1", "true", "True", "TRUE", "yes", "on", "ON"}

C13_FromChain == C13_FlagOn /\ cred_env.chain = "bucket"

C13_EnvOf(v) == IF v = Unset THEN "" ELSE v

C13_ResolverOrder ==
  pc # "resolving" =>
    /\ pc = "top"
    /\ ~creds.raised
    /\ C13_FromChain => creds.source = "chain" /\ creds.bag = TrainerBucket
    /\ (~C13_FromChain /\ cred_env.local = "ok") =>
         creds.source = "local" /\ creds.bag = LocalReadDict
    /\ (~C13_FromChain /\ cred_env.local # "ok") =>
         /\ creds.source = "env"
         /\ creds.bag = [name |-> C13_EnvOf(cred_env.bucket),
                         account_id |-> C13_EnvOf(cred_env.account),
                         access_key_id |-> C13_EnvOf(cred_env.access),
                         secret_access_key |-> C13_EnvOf(cred_env.secret)]

\* The flag is off, the chain would give a bucket, the local credentials do
\* not load, one variable is set and one is not: the bag of the environment.
C13_Witness ==
  /\ pc = "top"
  /\ cred_env.flag = "off"
  /\ cred_env.chain = "bucket"
  /\ cred_env.local = "raise"
  /\ cred_env.bucket = Unset
  /\ cred_env.account = "x"
  /\ creds.source = "env"
  /\ creds.bag.name = ""
  /\ creds.bag.account_id = "x"

\* C14: a window that every listing holds at or above the cutoff, whose probe
\* always returns ready and whose fetch always returns a path, is eventually
\* in downloaded_windows.
C14_GoodWindowDownloaded == <>(GoodWindow \in downloaded_windows)

\* C15: a cycle whose listing raised makes no probe, no fetch, no cache clear
\* and no cleanup call, leaves downloaded_windows as it was, and goes to the
\* sleep of the polling interval as a cycle with an empty listing does.
C15_ListingErrorAsEmpty ==
  listing_result = "raised" =>
    /\ probed = {}
    /\ fetched = {}
    /\ cache_calls = 0
    /\ ~cleaned
    /\ downloaded_windows = downloaded_before
    /\ local_store \subseteq downloaded_windows
    /\ pc \in {"sleep", "top", "exited"}
    /\ sleep_delay = bucket_check_interval

\* The listing of the second cycle raised after a first cycle that added windows.
C15_Witness ==
  /\ pc = "sleep"
  /\ listing_result = "raised"
  /\ calls = 2
  /\ downloaded_windows # {}

C17_StopOnlyBetweenCycles ==
  [][pc' = "exited" => pc \in {"sleep", "top"}]_vars

\* C18: as long as the maximum of the listings has not decreased, a window
\* that a listing held below its cutoff while it was not downloaded is not
\* probed, not fetched and not added afterwards.
C18_Monotone ==
  \A i \in 1..Len(latests) : \A j \in 1..Len(latests) :
    i < j => latests[i] <= latests[j]

C18_AbandonedForGood ==
  C18_Monotone =>
    /\ abandoned \cap probed = {}
    /\ abandoned \cap fetched = {}
    /\ abandoned \cap ready_seen = {}
    /\ abandoned \cap downloaded_windows = {}

\* A window abandoned by the first cycle is listed again by the second, which
\* probed another window and went on to its cleanup call.
C18_Witness ==
  /\ calls = 2
  /\ pc = "cleanup"
  /\ C18_Monotone
  /\ probed # {}
  /\ abandoned_before \cap remote_windows # {}

\* C19: the windows of a cycle are probed in strictly ascending order, the
\* download_checkpoint call of each has returned before the next is probed,
\* and all of them precede the cleanup call.
C19_AscendingOrder ==
  /\ \A i \in 1..Len(probe_order) : \A j \in 1..Len(probe_order) :
       i < j => probe_order[i] < probe_order[j]
  /\ pc \in {"probe", "clear_cache", "fetch"} =>
       /\ ~cleaned
       /\ window = probe_order[Len(probe_order)]
       /\ probed \ {window} \subseteq completed
       /\ fetched \ {window} \subseteq completed
  /\ cleaned => probed \subseteq completed

\* Two windows were probed, the lower one fetched, and cleanup is called.
C19_Witness ==
  /\ pc = "cleanup"
  /\ Len(probe_order) >= 2
  /\ probe_order[1] \in fetched
  /\ probe_order[2] \in fetched

\* C20: the cache clear is attempted after a probe that returned ready and
\* before the fetch; whether it raises or not the fetch is issued, and the
\* window is added when the fetch returns a path.
C20_CacheClearNonFatal ==
  /\ pc = "clear_cache" => window \in ready_seen /\ window \notin fetched
  /\ fetched \subseteq ready_seen
  /\ Cardinality(fetched) <= cache_calls
  /\ pc = "fetch" => Cardinality(fetched) = cache_calls
  /\ (ready_seen \cap completed) \subseteq fetched
  /\ (cache_failed /\ pc \in {"fetch", "cleanup"}) =>
       /\ probe_order[Len(probe_order)] \in fetched
       /\ (pc = "cleanup" /\ retval = "true") =>
            probe_order[Len(probe_order)] \in added \cap downloaded_windows

\* The cache clear of the last window raised, its fetch returned a path and
\* the window was added.
C20_Witness ==
  /\ pc = "cleanup"
  /\ cache_failed
  /\ retval = "true"
  /\ probe_order[Len(probe_order)] \in added

====
